---------------------------- MODULE Spec2Model ----------------------------
(***************************************************************************)
(* Model of watson_developer_cloud/watson_developer_cloud_service.py:      *)
(* the credential resolution of WatsonDeveloperCloudService.__init__, its  *)
(* setters, the request pipeline and the Alchemy endpoint routers.         *)
(*                                                                         *)
(* Python values are tagged records [t, v]: t is the Python type and v the *)
(* payload, so that None, '' and a real string stay three different        *)
(* values.  A dict is a function from its keys to values; a key is absent  *)
(* when it is not in the DOMAIN.  Python list index 0 is index 1 here.     *)
(***************************************************************************)
EXTENDS Integers, Sequences, FiniteSets, TLC

VARIABLES
    VCAP_SERVICES,  \* os.getenv("VCAP_SERVICES"), already JSON-decoded
    self,           \* the attributes of the client instance
    constructed,    \* TRUE once __init__ returned without raising
    jars,           \* number of CookieJar objects allocated so far
    call,           \* the operation that ran last, with its arguments
    sent,           \* the requests.request(...) call of that operation
    response,       \* the response object that call returned
    transport,      \* what requests.request answers to this client's calls
    outcome         \* what the operation returned or raised

vars == <<VCAP_SERVICES, transport, self, constructed, jars, call, sent, response, outcome>>

-----------------------------------------------------------------------------
(* Python values *)

None == [t |-> "None", v |-> ""]
Str(s) == [t |-> "str", v |-> s]
Bool(b) == [t |-> "bool", v |-> b]
Num(n) == [t |-> "int", v |-> n]
Dict(f) == [t |-> "dict", v |-> f]
List(q) == [t |-> "list", v |-> q]
Bytes(s) == [t |-> "bytes", v |-> s]
File(s) == [t |-> "file", v |-> s]
Jar(n) == [t |-> "CookieJar", v |-> n]
Tuple(q) == [t |-> "tuple", v |-> q]

EmptyDict == [k \in {} |-> None]

\* bool(x): Python truth value
Truthy(x) ==
    CASE x.t = "None" -> FALSE
      [] x.t = "str" -> x.v # ""
      [] x.t = "bytes" -> x.v # ""
      [] x.t = "bool" -> x.v
      [] x.t = "int" -> x.v # 0
      [] x.t = "dict" -> DOMAIN x.v # {}
      [] x.t = "list" -> x.v # <<>>
      [] x.t = "tuple" -> x.v # <<>>
      [] OTHER -> TRUE

\* d with d[k] = x (d[k] = x in Python: adds or overwrites the key)
SetItem(d, k, x) == [j \in DOMAIN d \cup {k} |-> IF j = k THEN x ELSE d[j]]

Digits == <<"0", "1", "2", "3", "4", "5", "6", "7", "8", "9">>

RECURSIVE str(_)
\* str(n) of a non-negative int
str(n) == IF n < 10 THEN Digits[n + 1] ELSE str(n \div 10) \o Digits[(n % 10) + 1]

-----------------------------------------------------------------------------
(* Exceptions and results *)

Raise(class, text) == [kind |-> "raise", class |-> class, args |-> <<Str(text)>>, value |-> None]
Return(x) == [kind |-> "return", class |-> "", args |-> <<>>, value |-> x]

NoCall == [op |-> "none"]
NotSent == [t |-> "None", v |-> ""]
NoResponse == [t |-> "None", v |-> ""]

-----------------------------------------------------------------------------
(* load_from_vcap_services *)

\* Variant: reads the last binding of the service instead of element 0.
load_from_vcap_services_LastBinding(service_name) ==
    IF VCAP_SERVICES # None
    THEN IF service_name \in DOMAIN VCAP_SERVICES.v
         THEN VCAP_SERVICES.v[service_name][Len(VCAP_SERVICES.v[service_name])].credentials
         ELSE None
    ELSE None

load_from_vcap_services(service_name) ==
    IF VCAP_SERVICES # None
    THEN IF service_name \in DOMAIN VCAP_SERVICES.v
         THEN VCAP_SERVICES.v[service_name][1].credentials
         ELSE None
    ELSE None

-----------------------------------------------------------------------------
(* WatsonDeveloperCloudService: setters *)

\* Variant: stores the username placeholder instead of dropping it.
set_username_and_password_KeepsPlaceholder(obj, username, password, new_jar) ==
    LET p == IF password = Str("YOUR SERVICE PASSWORD") THEN None ELSE password
    IN  [obj EXCEPT !.username = username, !.password = p, !.jar = new_jar]

set_username_and_password(obj, username, password, new_jar) ==
    LET u == IF username = Str("YOUR SERVICE USERNAME") THEN None ELSE username
        p == IF password = Str("YOUR SERVICE PASSWORD") THEN None ELSE password
    IN  [obj EXCEPT !.username = u, !.password = p, !.jar = new_jar]

\* Variant: keeps the cookie jar of the previous credentials.
set_api_key_KeepsJar(obj, api_key, new_jar) ==
    LET k == IF api_key = Str("YOUR API KEY") THEN None ELSE api_key
    IN  [obj EXCEPT !.api_key = k]

set_api_key(obj, api_key, new_jar) ==
    LET k == IF api_key = Str("YOUR API KEY") THEN None ELSE api_key
    IN  [obj EXCEPT !.api_key = k, !.jar = new_jar]

set_url(obj, url) == [obj EXCEPT !.url = url]

-----------------------------------------------------------------------------
(* WatsonDeveloperCloudService.__init__ *)

Unset == [t |-> "unset", v |-> ""]

\* lines 70-74
Attributes(url) ==
    [url |-> url, jar |-> None, api_key |-> None, username |-> None,
     password |-> None, vcap_service_credentials |-> Unset]

\* Variant: only a username given with the api_key is a conflict.
ArgumentsConflict_UsernameOnly(username, password, api_key) ==
    api_key # None /\ username # None

\* line 77: api_key was given together with a username or a password
ArgumentsConflict(username, password, api_key) ==
    api_key # None /\ (username # None \/ password # None)

\* lines 76-81
InitialCredentials(obj, username, password, api_key, new_jar) ==
    IF api_key # None
    THEN set_api_key(obj, api_key, new_jar)
    ELSE set_username_and_password(obj, username, password, new_jar)

\* line 83
UsesVcap(obj, use_vcap_services) ==
    use_vcap_services /\ ~Truthy(obj.username) /\ ~Truthy(obj.api_key)

\* lines 85-92
ApplyVcapCredentials(obj) ==
    LET c == obj.vcap_service_credentials
    IN  IF c # None /\ c.t = "dict"
        THEN [obj EXCEPT
                !.url = c.v["url"],
                !.username = IF "username" \in DOMAIN c.v THEN c.v["username"] ELSE @,
                !.password = IF "password" \in DOMAIN c.v THEN c.v["password"] ELSE @,
                !.api_key = IF "apikey" \in DOMAIN c.v THEN c.v["apikey"] ELSE @]
        ELSE obj

\* lines 83-92
ResolveFromVcap(obj, vcap_services_name, use_vcap_services) ==
    IF UsesVcap(obj, use_vcap_services)
    THEN ApplyVcapCredentials(
             [obj EXCEPT !.vcap_service_credentials =
                             load_from_vcap_services(vcap_services_name)])
    ELSE obj

\* line 94
CredentialsAreMissing(obj) ==
    (obj.username = None \/ obj.password = None) /\ obj.api_key = None

MissingText ==
    "You must specific your username and password service credentials "
    \o "(Note: these are different from your Bluemix id)"

\* The attributes the constructor leaves and what it raises, if anything.
__init__(vcap_services_name, url, username, password, use_vcap_services, api_key, new_jar) ==
    LET s0 == Attributes(url)
        s1 == InitialCredentials(s0, username, password, api_key, new_jar)
        s2 == ResolveFromVcap(s1, vcap_services_name, use_vcap_services)
    IN  IF ArgumentsConflict(username, password, api_key)
        THEN [obj |-> s0,
              outcome |-> Raise("WatsonInvalidArgument",
                                "Cannot set api_key and username and password together")]
        ELSE IF CredentialsAreMissing(s2)
        THEN [obj |-> s2, outcome |-> Raise("WatsonException", MissingText)]
        ELSE [obj |-> s2, outcome |-> Return(None)]

-----------------------------------------------------------------------------
(* Module-level helpers *)

_remove_null_values(dictionary) ==
    IF dictionary.t = "dict"
    THEN Dict([k \in {j \in DOMAIN dictionary.v : dictionary.v[j] # None} |-> dictionary.v[k]])
    ELSE dictionary

_convert_boolean_value(value) ==
    IF value.t = "bool" THEN (IF value.v THEN Num(1) ELSE Num(0)) ELSE value

_convert_boolean_values(dictionary) ==
    IF dictionary.t = "dict"
    THEN Dict([k \in DOMAIN dictionary.v |-> _convert_boolean_value(dictionary.v[k])])
    ELSE dictionary

\* unpack_id(dictionary, label_id)
unpack_id(dictionary, label_id) ==
    IF dictionary.t = "dict" /\ label_id \in DOMAIN dictionary.v
    THEN dictionary.v[label_id]
    ELSE dictionary

-----------------------------------------------------------------------------
(* WatsonDeveloperCloudService.request *)

\* A response the transport returns: a status code and a body.  The body is
\* a decoded JSON value, or NotJson when response.json() raises.
NotJson == [t |-> "invalid", v |-> ""]
Response(status_code, body) == [t |-> "Response", status_code |-> status_code, body |-> body]
\* The transport raising instead of returning a response.
ConnectionError == [t |-> "ConnectionError", status_code |-> 0, body |-> NotJson]

\* lines 194-198
AcceptHeaders(accept_json, headers) ==
    IF accept_json
    THEN LET json_headers == "accept" :> Str("application/json")
         IN  IF Truthy(headers)
             THEN Dict([k \in DOMAIN json_headers \cup DOMAIN headers.v |->
                           IF k \in DOMAIN headers.v THEN headers.v[k] ELSE json_headers[k]])
             ELSE Dict(json_headers)
    ELSE headers

\* lines 206-208
BasicAuth(obj) ==
    IF Truthy(obj.username) /\ Truthy(obj.password)
    THEN Tuple(<<obj.username, obj.password>>)
    ELSE None

\* lines 209-212
ApiKeyParams(obj, params) ==
    IF obj.api_key # None
    THEN Dict(SetItem(IF params = None THEN EmptyDict ELSE params.v, "apikey", obj.api_key))
    ELSE params

\* lines 192-215: the arguments of requests.request
Dispatch(obj, method, url, accept_json, headers, params, json, data) ==
    [t |-> "request",
     method |-> method,
     url |-> Str(obj.url.v \o url),
     cookies |-> obj.jar,
     auth |-> BasicAuth(obj),
     headers |-> _remove_null_values(AcceptHeaders(accept_json, headers)),
     params |-> ApiKeyParams(obj, _remove_null_values(params)),
     json |-> _remove_null_values(json),
     data |-> _remove_null_values(data)]

\* Variant: 'error' overrides 'error_message' when both are present.
_get_error_message_ErrorFirst(resp) ==
    LET error_json == resp.body
        unknown == Str("Unknown error")
        from_message == IF "error_message" \in DOMAIN error_json.v
                        THEN error_json.v["error_message"] ELSE unknown
    IN  IF error_json.t = "dict"
        THEN IF "error" \in DOMAIN error_json.v THEN error_json.v["error"] ELSE from_message
        ELSE unknown

\* lines 126-143; every failure inside the try leaves 'Unknown error'
_get_error_message(resp) ==
    LET error_json == resp.body
        unknown == Str("Unknown error")
        from_error == IF "error" \in DOMAIN error_json.v THEN error_json.v["error"] ELSE unknown
    IN  IF error_json.t = "dict"
        THEN IF "error_message" \in DOMAIN error_json.v
             THEN error_json.v["error_message"]
             ELSE from_error
        ELSE unknown

\* lines 220-226: the status and message of a 2xx body that reports an error
IsErrorBody(response_json) ==
    "status" \in DOMAIN response_json.v /\ response_json.v["status"] = Str("ERROR")

StatusInfo(response_json) ==
    IF "statusInfo" \in DOMAIN response_json.v
    THEN response_json.v["statusInfo"]
    ELSE Str("Unknown error")

ErrorStatus(error_message) == IF error_message = Str("invalid-api-key") THEN 401 ELSE 400

\* lines 230-236
ErrorText(resp) ==
    LET error_message ==
            IF resp.status_code = 401
            THEN Str("Unauthorized: Access is denied due to invalid credentials")
            ELSE _get_error_message(resp)
    IN  "Error: " \o error_message.v \o ", Code: " \o str(resp.status_code)

\* lines 217-236: the response object as the call leaves it, and the result
Classify(resp, accept_json) ==
    IF 200 <= resp.status_code /\ resp.status_code <= 299
    THEN IF accept_json
         THEN CASE resp.body.t = "invalid" ->
                     [response |-> resp,
                      outcome |-> Raise("ValueError", "No JSON object could be decoded")]
                [] resp.body.t = "int" ->
                     [response |-> resp,
                      outcome |-> Raise("TypeError", "argument of type 'int' is not iterable")]
                [] resp.body.t = "dict" /\ IsErrorBody(resp.body) ->
                     LET error_message == StatusInfo(resp.body)
                     IN  [response |-> [resp EXCEPT !.status_code = ErrorStatus(error_message)],
                          outcome |-> Raise("WatsonException", "Error: " \o error_message.v)]
                [] OTHER -> [response |-> resp, outcome |-> Return(resp.body)]
         ELSE [response |-> resp, outcome |-> Return(resp)]
    ELSE [response |-> resp, outcome |-> Raise("WatsonException", ErrorText(resp))]

\* request(method, url, accept_json, headers, params, json, data) on obj,
\* the transport answering with resp
request(obj, method, url, accept_json, headers, params, json, data, resp) ==
    LET d == Dispatch(obj, method, url, accept_json, headers, params, json, data)
    IN  IF resp.t = "ConnectionError"
        THEN [sent |-> d, response |-> NoResponse,
              outcome |-> Raise("ConnectionError", "connection refused")]
        ELSE [sent |-> d] @@ Classify(resp, accept_json)

-----------------------------------------------------------------------------
(* WatsonDeveloperCloudService._alchemy_html_request / _alchemy_image_request *)

\* Variant: html is tested before url.
Channel_HtmlFirst(url, html, text) ==
    IF Truthy(html) THEN "html"
    ELSE IF Truthy(url) THEN "url"
    ELSE IF Truthy(text) THEN "text"
    ELSE "none"

\* lines 155-163: the input that decides the path
Channel(url, html, text) ==
    IF Truthy(url) THEN "url"
    ELSE IF Truthy(html) THEN "html"
    ELSE IF Truthy(text) THEN "text"
    ELSE "none"

\* lines 147-152
AlchemyParams(params) ==
    _convert_boolean_values(
        Dict(SetItem(IF params = None THEN EmptyDict ELSE params.v, "outputMode", Str("json"))))

_alchemy_html_request(obj, method_name, url, html, text, params, method, method_url, resp) ==
    LET p == AlchemyParams(params)
        headers == Dict("content-type" :> Str("application/x-www-form-urlencoded"))
        url_encoded_params == Dict(("html" :> html) @@ ("text" :> text))
        channel == Channel(url, html, text)
        path == IF method_url # None THEN method_url.v
                ELSE IF channel = "url" THEN "/url/URL" \o method_name
                ELSE IF channel = "html" THEN "/html/HTML" \o method_name
                ELSE "/text/Text" \o method_name
        q == IF method_url = None /\ channel = "url" THEN Dict(SetItem(p.v, "url", url)) ELSE p
    IN  IF method_url = None /\ channel = "none"
        THEN [sent |-> NotSent, response |-> NoResponse,
              outcome |-> Raise("WatsonInvalidArgument", "url, html or text must be specified")]
        ELSE request(obj, method, path, TRUE, headers, q, None, url_encoded_params, resp)

_alchemy_image_request(obj, method_name, image_file, image_url, params, resp) ==
    LET p == AlchemyParams(params)
    IN  IF Truthy(image_file)
        THEN request(obj, "POST", "/image/Image" \o method_name, TRUE, Dict(EmptyDict),
                     Dict(SetItem(p.v, "imagePostMode", Str("raw"))), None,
                     Bytes(image_file.v), resp)
        ELSE IF Truthy(image_url)
        THEN request(obj, "POST", "/url/URL" \o method_name, TRUE, Dict(EmptyDict),
                     Dict(SetItem(SetItem(p.v, "imagePostMode", Str("not-raw")), "url", image_url)),
                     None, None, resp)
        ELSE [sent |-> NotSent, response |-> NoResponse,
              outcome |-> Raise("WatsonInvalidArgument",
                                "image_file or image_url must be specified")]

-----------------------------------------------------------------------------
(* Inputs *)

MaxJars == 3

Usernames == {None, Str(""), Str("alice"), Str("YOUR SERVICE USERNAME")}
Passwords == {None, Str(""), Str("secret"), Str("YOUR SERVICE PASSWORD")}
ApiKeys == {None, Str(""), Str("key-123"), Str("YOUR API KEY")}
ServiceNames == {"bound_service", "other_service"}
BaseUrl == Str("https://gateway")
SetUrls == {Str("https://elsewhere")}

\* The credentials objects a binding may hold: a url and any of username,
\* password, apikey; or something that is not a mapping.
BoundFields == ("username" :> Str("bound-user")) @@ ("password" :> Str("bound-pass"))
                 @@ ("apikey" :> Str("bound-key"))
CredentialsObjects ==
    { Dict([k \in ks \cup {"url"} |->
               IF k = "url" THEN Str("https://bound") ELSE BoundFields[k]])
        : ks \in SUBSET DOMAIN BoundFields }
    \cup {Str("not-a-mapping")}

\* Element 0 of the service's array is followed by a second binding.
SecondBinding ==
    [credentials |-> Dict(("url" :> Str("https://second")) @@ ("username" :> Str("second-user"))
                            @@ ("password" :> Str("second-pass")) @@ ("apikey" :> Str("second-key")))]
Environments ==
    {None} \cup { Dict("bound_service" :> <<[credentials |-> c], SecondBinding>>)
                    : c \in CredentialsObjects }

\* What the transport may answer.
StatusCodes == {199, 200, 204, 299, 300, 400, 401, 404, 500}
Bodies ==
    { NotJson, Num(7), List(<<>>), Dict(EmptyDict),
      Dict("status" :> Str("OK")),
      Dict("status" :> Str("ERROR")),
      Dict(("status" :> Str("ERROR")) @@ ("statusInfo" :> Str("invalid-api-key"))),
      Dict(("status" :> Str("ERROR")) @@ ("statusInfo" :> Str("daily-transaction-limit-exceeded"))),
      Dict("statusInfo" :> Str("invalid-api-key")),
      Dict("error" :> Str("Bad request")),
      Dict("error_message" :> Str("not found")),
      Dict(("error" :> Str("Bad request")) @@ ("error_message" :> Str("not found"))),
      Dict(("status" :> Str("ERROR")) @@ ("error" :> Str("Bad request"))) }
Responses == {Response(c, b) : c \in StatusCodes, b \in Bodies} \cup {ConnectionError}

\* The few answers the credential specification draws from.
FewResponses ==
    { Response(200, Dict("status" :> Str("OK"))),
      Response(200, Dict(("status" :> Str("ERROR")) @@ ("statusInfo" :> Str("invalid-api-key")))),
      Response(404, Dict("error_message" :> Str("not found"))),
      ConnectionError }

-----------------------------------------------------------------------------
(* Operations *)

Init ==
    /\ VCAP_SERVICES \in Environments
    /\ transport \in FewResponses
    /\ self = Attributes(None)
    /\ constructed = FALSE
    /\ jars = 0
    /\ call = NoCall
    /\ sent = NotSent
    /\ response = NoResponse
    /\ outcome = Return(None)

\* WatsonDeveloperCloudService(vcap_services_name, url, username, password,
\*                             use_vcap_services, api_key).  A behaviour follows
\* one instance: it is constructed once, from the state before any call.
Construct ==
    \E name \in ServiceNames, username \in Usernames, password \in Passwords,
       use_vcap_services \in BOOLEAN, api_key \in ApiKeys :
        LET r == __init__(name, BaseUrl, username, password, use_vcap_services,
                          api_key, Jar(jars + 1))
        IN  /\ call = NoCall
            /\ self' = r.obj
            /\ constructed' = (r.outcome.kind = "return")
            /\ jars' = IF r.obj.jar = None THEN jars ELSE jars + 1
            /\ call' = [op |-> "__init__", vcap_services_name |-> name, url |-> BaseUrl,
                        username |-> username, password |-> password,
                        use_vcap_services |-> use_vcap_services, api_key |-> api_key]
            /\ sent' = NotSent
            /\ response' = NoResponse
            /\ outcome' = r.outcome
            /\ UNCHANGED <<VCAP_SERVICES, transport>>

SetUsernameAndPassword ==
    \E username \in Usernames, password \in Passwords :
        /\ constructed
        /\ jars < MaxJars
        /\ self' = set_username_and_password(self, username, password, Jar(jars + 1))
        /\ jars' = jars + 1
        /\ call' = [op |-> "set_username_and_password", username |-> username,
                    password |-> password]
        /\ sent' = NotSent
        /\ response' = NoResponse
        /\ outcome' = Return(None)
        /\ UNCHANGED <<VCAP_SERVICES, transport, constructed>>

SetApiKey ==
    \E api_key \in ApiKeys :
        /\ constructed
        /\ jars < MaxJars
        /\ self' = set_api_key(self, api_key, Jar(jars + 1))
        /\ jars' = jars + 1
        /\ call' = [op |-> "set_api_key", api_key |-> api_key]
        /\ sent' = NotSent
        /\ response' = NoResponse
        /\ outcome' = Return(None)
        /\ UNCHANGED <<VCAP_SERVICES, transport, constructed>>

SetUrl ==
    \E url \in SetUrls :
        /\ constructed
        /\ self' = set_url(self, url)
        /\ call' = [op |-> "set_url", url |-> url]
        /\ sent' = NotSent
        /\ response' = NoResponse
        /\ outcome' = Return(None)
        /\ UNCHANGED <<VCAP_SERVICES, transport, constructed, jars>>

Paths == {"/v1/items"}
HeaderArgs == {None, Dict(("accept" :> Str("text/plain")) @@ ("x-debug" :> None))}
ParamArgs == {None, Dict(("a" :> None) @@ ("b" :> Bool(TRUE)) @@ ("c" :> Bool(FALSE)))}
JsonArgs == {None, Dict(("name" :> Str("n")) @@ ("note" :> None))}
DataArgs == {None, Bytes("raw")}

\* One request call; the sets are the arguments it is drawn from.
RequestOver(methods, accepts, headerArgs, paramArgs, jsonArgs, dataArgs) ==
    \E method \in methods, url \in Paths, accept_json \in accepts, headers \in headerArgs,
       params \in paramArgs, json \in jsonArgs, data \in dataArgs :
        LET r == request(self, method, url, accept_json, headers, params, json, data, transport)
        IN  /\ constructed
            /\ call' = [op |-> "request", method |-> method, url |-> url,
                        accept_json |-> accept_json, headers |-> headers, params |-> params,
                        json |-> json, data |-> data]
            /\ sent' = r.sent
            /\ response' = r.response
            /\ outcome' = r.outcome
            /\ UNCHANGED <<VCAP_SERVICES, transport, self, constructed, jars>>

Request == RequestOver({"GET"}, BOOLEAN, {None}, {None}, {None}, {None})

Next == Construct \/ SetUsernameAndPassword \/ SetApiKey \/ SetUrl \/ Request

Spec == Init /\ [][Next]_vars

-----------------------------------------------------------------------------
(* The request pipeline on a constructed client *)

PipelineClients ==
    { <<Str("alice"), Str("secret"), None>>, <<None, None, Str("key-123")>> }

\* A client constructed from explicit credentials, talking to a service that
\* gives one of the answers.
ClientInit(answers) ==
    \E c \in PipelineClients :
        LET r == __init__("bound_service", BaseUrl, c[1], c[2], FALSE, c[3], Jar(1))
        IN  /\ VCAP_SERVICES = None
            /\ transport \in answers
            /\ self = r.obj
            /\ constructed = TRUE
            /\ jars = 1
            /\ call = [op |-> "__init__", vcap_services_name |-> "bound_service",
                       url |-> BaseUrl, username |-> c[1], password |-> c[2],
                       use_vcap_services |-> FALSE, api_key |-> c[3]]
            /\ sent = NotSent
            /\ response = NoResponse
            /\ outcome = r.outcome

PipelineRequest == RequestOver({"POST"}, BOOLEAN, HeaderArgs, ParamArgs, JsonArgs, DataArgs)

ResponseInit == ClientInit(Responses)

ResponseSpec == ResponseInit /\ [][PipelineRequest]_vars

MethodNames == {"Sentiment"}
UrlArgs == {None, Str(""), Str("http://page")}
HtmlArgs == {None, Str(""), Str("<p>hi</p>")}
TextArgs == {None, Str(""), Str("hello")}
MethodUrlArgs == {None, Str("/custom/Path")}
ImageFiles == {None, File("png-bytes")}
ImageUrls == {None, Str(""), Str("http://image")}

AlchemyHtmlRequest ==
    \E method_name \in MethodNames, url \in UrlArgs, html \in HtmlArgs, text \in TextArgs,
       params \in ParamArgs, method \in {"POST"}, method_url \in MethodUrlArgs :
        LET r == _alchemy_html_request(self, method_name, url, html, text, params, method,
                                       method_url, transport)
        IN  /\ constructed
            /\ call' = [op |-> "_alchemy_html_request", method_name |-> method_name,
                        url |-> url, html |-> html, text |-> text, params |-> params,
                        method |-> method, method_url |-> method_url]
            /\ sent' = r.sent
            /\ response' = r.response
            /\ outcome' = r.outcome
            /\ UNCHANGED <<VCAP_SERVICES, transport, self, constructed, jars>>

AlchemyImageRequest ==
    \E method_name \in MethodNames, image_file \in ImageFiles, image_url \in ImageUrls,
       params \in ParamArgs :
        LET r == _alchemy_image_request(self, method_name, image_file, image_url, params,
                                        transport)
        IN  /\ constructed
            /\ call' = [op |-> "_alchemy_image_request", method_name |-> method_name,
                        image_file |-> image_file, image_url |-> image_url, params |-> params]
            /\ sent' = r.sent
            /\ response' = r.response
            /\ outcome' = r.outcome
            /\ UNCHANGED <<VCAP_SERVICES, transport, self, constructed, jars>>

RouterInit == ClientInit(FewResponses)

RouterNext == AlchemyHtmlRequest \/ AlchemyImageRequest

RouterSpec == RouterInit /\ [][RouterNext]_vars

-----------------------------------------------------------------------------
(* Vocabulary of the properties *)

\* A credential value that is neither absent nor the empty string.
NonEmpty(x) == x # None /\ x # Str("")
BasicActive(obj) == NonEmpty(obj.username) /\ NonEmpty(obj.password)
ApiKeyActive(obj) == NonEmpty(obj.api_key)

Constructing == call.op = "__init__"
Succeeded == outcome.kind = "return"
Raised(class, text) == outcome.kind = "raise" /\ outcome.class = class /\ outcome.args = <<Str(text)>>

\* The credentials object of element 0 of the named service's bindings.
BindingOf(name) == VCAP_SERVICES.v[name][1].credentials
HasBinding(name) ==
    /\ VCAP_SERVICES # None
    /\ name \in DOMAIN VCAP_SERVICES.v
    /\ BindingOf(name).t = "dict"
\* The lookup of the constructor ran and found a mapping that holds key k.
BindingSupplied(k) ==
    /\ self.vcap_service_credentials.t = "dict"
    /\ k \in DOMAIN self.vcap_service_credentials.v

-----------------------------------------------------------------------------
(* C1 *)

\* C1: in every reachable state of a constructed client Basic auth (username
\* and password both non-empty) and ApiKey auth (api_key non-empty) are not
\* both active, and no dispatched request carries both a basic-auth tuple and
\* an apikey query parameter.
C1_NeverBothActive ==
    constructed =>
        /\ ~(BasicActive(self) /\ ApiKeyActive(self))
        /\ (sent # NotSent =>
                ~(sent.auth # None /\ sent.params.t = "dict" /\ "apikey" \in DOMAIN sent.params.v))

-----------------------------------------------------------------------------
(* C2 *)

\* C2: a construction returns only if, after credential resolution, username
\* and password are both non-empty or api_key is non-empty (the empty string
\* counts as missing); a construction that reaches the final validation
\* without such a set raises the credentials-missing error.
C2_ConstructedOnlyWithCredentials ==
    Constructing =>
        /\ (Succeeded => (BasicActive(self) \/ ApiKeyActive(self)))
        /\ (self.jar # None /\ ~(BasicActive(self) \/ ApiKeyActive(self))
                => Raised("WatsonException", MissingText))

-----------------------------------------------------------------------------
(* C3 *)

\* C3: after a construction that returns, each of username, password and
\* api_key that was passed as a non-empty, non-placeholder argument holds
\* that argument, whatever the service binding contains.
C3_ExplicitNeverOverwritten ==
    (Constructing /\ Succeeded) =>
        /\ (NonEmpty(call.username) /\ call.username # Str("YOUR SERVICE USERNAME")
                => self.username = call.username)
        /\ (NonEmpty(call.password) /\ call.password # Str("YOUR SERVICE PASSWORD")
                => self.password = call.password)
        /\ (NonEmpty(call.api_key) /\ call.api_key # Str("YOUR API KEY")
                => self.api_key = call.api_key)

-----------------------------------------------------------------------------
(* C4 *)

\* C4: a construction given an api_key together with a username or a
\* password (one of them or both) raises WatsonInvalidArgument, whatever
\* use_vcap_services and VCAP_SERVICES are, and the binding lookup has not run.
C4_ApiKeyWithUserOrPasswordRejected ==
    (Constructing /\ call.api_key # None /\ (call.username # None \/ call.password # None)) =>
        /\ Raised("WatsonInvalidArgument", "Cannot set api_key and username and password together")
        /\ self.vcap_service_credentials = Unset

C4_Witness ==
    /\ Constructing
    /\ call.api_key = Str("key-123") /\ call.username = None /\ call.password = Str("secret")
    /\ call.use_vcap_services /\ HasBinding(call.vcap_services_name)
    /\ outcome.kind = "raise" /\ outcome.class = "WatsonInvalidArgument"
    /\ self.vcap_service_credentials = Unset

-----------------------------------------------------------------------------
(* C5 *)

\* C5: a construction with use_vcap_services, no username, password or
\* api_key argument, and a registry whose element 0 for the service holds
\* credentials with url and apikey returns a client whose api_key is the
\* binding's apikey and whose url is the binding's url.
C5_BindingApiKeyAndUrlUsed ==
    ( /\ Constructing /\ call.use_vcap_services
      /\ call.username = None /\ call.password = None /\ call.api_key = None
      /\ HasBinding(call.vcap_services_name)
      /\ {"url", "apikey"} \subseteq DOMAIN BindingOf(call.vcap_services_name).v ) =>
        /\ Succeeded
        /\ self.api_key = BindingOf(call.vcap_services_name).v["apikey"]
        /\ self.url = BindingOf(call.vcap_services_name).v["url"]

C5_Witness ==
    /\ Constructing /\ call.use_vcap_services
    /\ call.username = None /\ call.password = None /\ call.api_key = None
    /\ Succeeded
    /\ self.api_key = Str("bound-key")
    /\ self.url = Str("https://bound") /\ self.url # call.url
    /\ self.username = None

-----------------------------------------------------------------------------
(* C6 *)

\* C6 as stated: after a construction or a setter call that was given a
\* placeholder literal the corresponding field is absent; a construction with
\* the placeholder username, a real password, no api key and no applicable
\* binding raises the credentials-missing error.
C6_PlaceholderFieldAbsent ==
    /\ ((Constructing /\ Succeeded) \/ call.op = "set_username_and_password" =>
            /\ (call.username = Str("YOUR SERVICE USERNAME") => self.username = None)
            /\ (call.password = Str("YOUR SERVICE PASSWORD") => self.password = None))
    /\ ((Constructing /\ Succeeded) \/ call.op = "set_api_key" =>
            (call.api_key = Str("YOUR API KEY") => self.api_key = None))
    /\ ( ( /\ Constructing
           /\ call.username = Str("YOUR SERVICE USERNAME")
           /\ NonEmpty(call.password) /\ call.password # Str("YOUR SERVICE PASSWORD")
           /\ call.api_key = None
           /\ ~(call.use_vcap_services /\ HasBinding(call.vcap_services_name)) )
         => Raised("WatsonException", MissingText) )

\* C6 amended: the field given a placeholder is absent after a setter call;
\* after a construction it is absent unless the binding lookup ran and
\* supplied that field, and then it holds the binding's value; a construction
\* with the placeholder username, a real password, no api key and no
\* applicable binding raises the credentials-missing error.
C6_PlaceholderNotProvided ==
    /\ (call.op = "set_username_and_password" =>
            /\ (call.username = Str("YOUR SERVICE USERNAME") => self.username = None)
            /\ (call.password = Str("YOUR SERVICE PASSWORD") => self.password = None))
    /\ (call.op = "set_api_key" =>
            (call.api_key = Str("YOUR API KEY") => self.api_key = None))
    /\ (Constructing =>
            /\ (call.username = Str("YOUR SERVICE USERNAME") =>
                    self.username = IF BindingSupplied("username")
                                    THEN self.vcap_service_credentials.v["username"] ELSE None)
            /\ (call.password = Str("YOUR SERVICE PASSWORD") =>
                    self.password = IF BindingSupplied("password")
                                    THEN self.vcap_service_credentials.v["password"] ELSE None)
            /\ (call.api_key = Str("YOUR API KEY") =>
                    self.api_key = IF BindingSupplied("apikey")
                                   THEN self.vcap_service_credentials.v["apikey"] ELSE None))
    /\ ( ( /\ Constructing
           /\ call.username = Str("YOUR SERVICE USERNAME")
           /\ NonEmpty(call.password) /\ call.password # Str("YOUR SERVICE PASSWORD")
           /\ call.api_key = None
           /\ ~(call.use_vcap_services /\ HasBinding(call.vcap_services_name)) )
         => Raised("WatsonException", MissingText) )

C6_Witness ==
    /\ Constructing
    /\ call.username = Str("YOUR SERVICE USERNAME") /\ call.password = Str("secret")
    /\ call.api_key = None /\ call.use_vcap_services /\ VCAP_SERVICES = None
    /\ self.username = None /\ self.password = Str("secret")
    /\ Raised("WatsonException", MissingText)

-----------------------------------------------------------------------------
(* C7 *)

Answered == transport.t = "Response"
Status2xx == 200 <= transport.status_code /\ transport.status_code <= 299
ErrorMarked ==
    /\ transport.body.t = "dict"
    /\ "status" \in DOMAIN transport.body.v
    /\ transport.body.v["status"] = Str("ERROR")

\* The ways a raised error can carry a message and a status code: as its
\* arguments, or in its text the way the non-2xx branch writes them.
CarriesMessageAndStatus(message, code) ==
    outcome.args \in { <<Str(message), Num(code)>>,
                       <<Num(code), Str(message)>>,
                       <<Str("Error: " \o message), Num(code)>>,
                       <<Str("Error: " \o message \o ", Code: " \o str(code))>> }

\* C7: a request with accept_json whose answer has a status in [200,299] and
\* a JSON body with status 'ERROR' does not return the body: it raises an
\* error carrying the statusInfo message ('Unknown error' without statusInfo)
\* and the status code 401 for 'invalid-api-key', else 400.
C7_ErrorBodyRaisesWithStatus ==
    (call.op = "request" /\ call.accept_json /\ Answered /\ Status2xx /\ ErrorMarked) =>
        LET message == IF "statusInfo" \in DOMAIN transport.body.v
                       THEN transport.body.v["statusInfo"].v ELSE "Unknown error"
            code == IF message = "invalid-api-key" THEN 401 ELSE 400
        IN  /\ outcome.kind = "raise"
            /\ outcome.class = "WatsonException"
            /\ CarriesMessageAndStatus(message, code)

-----------------------------------------------------------------------------
(* C8 *)

\* C8: a request answered with a status outside [200,299] raises an error
\* whose text is 'Error: ' + message + ', Code: ' + status; the message is
\* the Unauthorized literal for 401, else the body's error_message, else its
\* error, else 'Unknown error' (also for a body that is not a JSON object).
\* A 404 with {error_message: 'not found'} gives 'Error: not found, Code: 404'.
C8_NonSuccessErrorText ==
    (call.op = "request" /\ Answered /\ ~Status2xx) =>
        LET body == transport.body
            message ==
                IF transport.status_code = 401
                THEN "Unauthorized: Access is denied due to invalid credentials"
                ELSE IF body.t = "dict" /\ "error_message" \in DOMAIN body.v
                THEN body.v["error_message"].v
                ELSE IF body.t = "dict" /\ "error" \in DOMAIN body.v
                THEN body.v["error"].v
                ELSE "Unknown error"
        IN  /\ Raised("WatsonException",
                      "Error: " \o message \o ", Code: " \o str(transport.status_code))
            /\ (transport = Response(404, Dict("error_message" :> Str("not found")))
                    => outcome.args = <<Str("Error: not found, Code: 404")>>)
            /\ (transport.status_code = 401 =>
                    outcome.args = <<Str("Error: Unauthorized: Access is denied due to "
                                         \o "invalid credentials, Code: 401")>>)

C8_Witness ==
    /\ call.op = "request"
    /\ transport = Response(404, Dict(("error" :> Str("Bad request"))
                                        @@ ("error_message" :> Str("not found"))))
    /\ outcome.args = <<Str("Error: not found, Code: 404")>>

-----------------------------------------------------------------------------
(* C9 *)

\* An input of the router is present when it is neither None nor empty.
Present(x) == x # None /\ x # Str("")

\* The form body of the router as dispatched: html and text, less the
\* entries that are None.
FormBody(html, text) ==
    Dict([k \in {j \in {"html", "text"} : (IF j = "html" THEN html ELSE text) # None} |->
             IF k = "html" THEN html ELSE text])

\* C9: without an override path the router picks url, else html, else text:
\* path '/url/URL'+suffix with url added to params, '/html/HTML'+suffix or
\* '/text/Text'+suffix; with none of them it raises WatsonInvalidArgument and
\* dispatches nothing; every dispatched request has outputMode=json in params
\* and the body {html, text}.
C9_RouterPriority ==
    (call.op = "_alchemy_html_request" /\ call.method_url = None) =>
        LET full(prefix) == Str(self.url.v \o prefix \o call.method_name)
        IN  /\ (Present(call.url) =>
                    /\ sent # NotSent
                    /\ sent.url = full("/url/URL")
                    /\ "url" \in DOMAIN sent.params.v /\ sent.params.v["url"] = call.url)
            /\ (~Present(call.url) /\ Present(call.html) =>
                    /\ sent # NotSent
                    /\ sent.url = full("/html/HTML")
                    /\ "url" \notin DOMAIN sent.params.v)
            /\ (~Present(call.url) /\ ~Present(call.html) /\ Present(call.text) =>
                    /\ sent # NotSent
                    /\ sent.url = full("/text/Text")
                    /\ "url" \notin DOMAIN sent.params.v)
            /\ (~Present(call.url) /\ ~Present(call.html) /\ ~Present(call.text) =>
                    /\ sent = NotSent
                    /\ Raised("WatsonInvalidArgument", "url, html or text must be specified"))
            /\ (sent # NotSent =>
                    /\ "outputMode" \in DOMAIN sent.params.v
                    /\ sent.params.v["outputMode"] = Str("json")
                    /\ sent.data = FormBody(call.html, call.text))

C9_Witness ==
    /\ call.op = "_alchemy_html_request" /\ call.method_url = None
    /\ call.url = Str("http://page") /\ call.html = Str("<p>hi</p>") /\ call.text = Str("hello")
    /\ sent # NotSent
    /\ sent.url = Str("https://gateway/url/URLSentiment")
    /\ sent.data = Dict(("html" :> Str("<p>hi</p>")) @@ ("text" :> Str("hello")))

-----------------------------------------------------------------------------
(* C10 *)

\* C10: a request step, returning or raising, leaves url, username, password,
\* api_key and the jar object as they were; a set_username_and_password or
\* set_api_key step installs a jar that was never used before; on a
\* constructed client nothing else changes the jar; set_url changes url only.
C10_OnlySettersChangeState ==
    [][ /\ (call'.op = "request" => self' = self)
        /\ (call'.op \in {"set_username_and_password", "set_api_key"} =>
                /\ self'.jar.t = "CookieJar"
                /\ self'.jar.v > jars
                /\ self'.jar # self.jar
                /\ self'.url = self.url)
        /\ (constructed /\ self'.jar # self.jar =>
                call'.op \in {"set_username_and_password", "set_api_key"})
        /\ (constructed /\ <<self'.username, self'.password>> # <<self.username, self.password>> =>
                call'.op = "set_username_and_password")
        /\ (constructed /\ self'.api_key # self.api_key => call'.op = "set_api_key")
        /\ (call'.op = "set_url" => self' = [self EXCEPT !.url = call'.url])
      ]_vars

C10_Witness ==
    /\ call.op = "request" /\ outcome.kind = "raise"
    /\ jars = 2 /\ self.jar = Jar(2) /\ sent.cookies = Jar(2)
    /\ self.url = Str("https://elsewhere")

=============================================================================
